---- MODULE Spec2Model ----
(***************************************************************************)
(* Model of src/ransac_detector.py: depth cropping, connected-component    *)
(* splitting, iterative RANSAC plane extraction and the point-cloud loss.   *)
(*                                                                          *)
(* Arrays are functions from Pixels (row, column) to values.  Real numbers  *)
(* are exact rationals <<numerator, denominator>> with denominator > 0;    *)
(* the sampled values are small integers and simple fractions, chosen so    *)
(* that float rounding does not change any comparison the program makes.    *)
(***************************************************************************)
EXTENDS Integers, Sequences, FiniteSets, TLC

\* ------------------------------------------------------------------ bounds
\* shape of every depth map and mask
Rows == 1
Cols == 3
\* most non-zero pixels of a mask given to extract_planes_con
MaxPts == 3
\* largest start_size given to extract_planes_con
MaxStart == 3
\* most points of a cloud given to loss_metric
MaxLen == 2
\* most fits of one call that report no inlier (such a fit changes nothing,
\* so the loop would repeat it for ever)
MaxEmptyFits == 1

VARIABLES
    pc,            \* position of the running call
    depth_map,     \* argument depth_map (crop, components, extract)
    threshold,     \* argument threshold (crop, components)
    ret,           \* value returned / exception raised by a pure function
    true_arr,      \* loss_metric: np.asarray(true_pcd.points), z column
    approx_arr,    \* loss_metric: np.asarray(approx_pcd.points), z column
    func,          \* loss_metric: argument func
    mem,           \* extract_planes_con: the mask arrays, by reference
    curr_map_arr,  \* extract_planes_con: the reference the local holds
    start_size,    \* extract_planes_con: argument start_size
    t,             \* extract_planes_con: argument t
    count,         \* extract_planes_con: local count
    result,        \* extract_planes_con: local result (the inlier masks)
    hist           \* history: what the caller passed, what the fitter said

vars == <<pc, depth_map, threshold, ret, true_arr, approx_arr, func,
          mem, curr_map_arr, start_size, t, count, result, hist>>

\* ------------------------------------------------------------ arrays
Pixels == (0 .. Rows - 1) \X (0 .. Cols - 1)

\* position of a pixel in row-major (C) order
Idx(p) == p[1] * Cols + p[2]

\* the pixels of S in row-major order, as np.where / np.argwhere list them
RECURSIVE RowMajor(_)
RowMajor(S) ==
    IF S = {} THEN <<>>
    ELSE LET p == CHOOSE q \in S : \A r \in S : Idx(q) <= Idx(r)
         IN  <<p>> \o RowMajor(S \ {p})

\* np.where(a): the pixels where a is non-zero
NonZero(a) == {p \in Pixels : a[p] # 0}

\* ------------------------------------------------------------ rationals
Zero == <<0, 1>>
Lt(a, b) == a[1] * b[2] < b[1] * a[2]
RECURSIVE Gcd(_, _)
Gcd(a, b) == IF b = 0 THEN a ELSE Gcd(b, a % b)
Norm(a) ==
    LET g == Gcd(IF a[1] < 0 THEN -a[1] ELSE a[1], a[2])
    IN  <<a[1] \div g, a[2] \div g>>
Add(a, b) == Norm(<<a[1] * b[2] + b[1] * a[2], a[2] * b[2]>>)
Div(a, n) == Norm(<<a[1], a[2] * n>>)

\* ------------------------------------------------------- crop_depth_map
\* vect_func: lambda x: 1 / x if x > 0 else x
vect_func(x) == IF x > 0 THEN <<1, x>> ELSE <<x, 1>>

RECURSIVE SumSeq(_)
SumSeq(s) == IF s = <<>> THEN Zero ELSE Add(s[1], SumSeq(Tail(s)))

\* a float that may be nan: every comparison with nan is False
Num(v) == [nan |-> FALSE, val |-> v]
NaN == [nan |-> TRUE, val |-> Zero]

\* np.mean over arr[arr > 0]; the mean of an empty array is nan
Mean(tmp) ==
    LET pos == RowMajor({p \in Pixels : tmp[p][1] > 0})
    IN  IF pos = <<>> THEN NaN
        ELSE Num(Div(SumSeq([k \in 1 .. Len(pos) |-> tmp[pos[k]]]), Len(pos)))

\* line 23-27: a callable threshold is applied to the positive entries
Cutoff(tmp, th) == IF th.callable THEN Mean(tmp) ELSE Num(th.val)

\* tmp < t, elementwise
CropKeepLe(x, cut) == ~cut.nan /\ ~Lt(cut.val, x)
CropKeep(x, cut) == ~cut.nan /\ Lt(x, cut.val)

crop_depth_map(dm, th) ==
    LET tmp == [p \in Pixels |-> vect_func(dm[p])]
        cut == Cutoff(tmp, th)
        ans == [p \in Pixels |-> IF CropKeep(tmp[p], cut) THEN tmp[p] ELSE Zero]
    IN  [tag |-> "ok", ans |-> ans,
         n |-> Cardinality({p \in Pixels : ans[p][1] # 0})]

DepthVals == {0, 1, 2}
DepthMaps == [Pixels -> DepthVals]
Cutoffs == {<<-1, 1>>, <<0, 1>>, <<1, 2>>, <<1, 1>>, <<2, 1>>}

Idle ==
    /\ true_arr = <<>> /\ approx_arr = <<>> /\ func = "none"
    /\ mem = <<>> /\ curr_map_arr = "none" /\ start_size = 0 /\ t = Zero
    /\ count = 0 /\ result = <<>> /\ hist = <<>>

InitCrop ==
    /\ pc = "crop"
    /\ depth_map \in DepthMaps
    /\ threshold \in [callable : {FALSE}, val : Cutoffs]
                     \cup {[callable |-> TRUE, val |-> Zero]}
    /\ ret = [tag |-> "none"]
    /\ Idle

CallCrop ==
    /\ pc = "crop"
    /\ ret' = crop_depth_map(depth_map, threshold)
    /\ pc' = "crop_done"
    /\ UNCHANGED <<depth_map, threshold, true_arr, approx_arr, func, mem,
                   curr_map_arr, start_size, t, count, result, hist>>

NextCrop == CallCrop
SpecCrop == InitCrop /\ [][NextCrop]_vars

\* C8: for an all-positive depth map and a numeric cutoff n/d, crop_depth_map
\* returns an array over the same pixels whose entry is 0 where 1/x >= n/d
\* and 1/x (which is < n/d) elsewhere, and the count of its non-zero entries.
C8_CropPositive ==
    (pc = "crop_done" /\ ~threshold.callable
        /\ \A p \in Pixels : depth_map[p] > 0) =>
    LET n == threshold.val[1]
        d == threshold.val[2]
    IN  /\ DOMAIN ret.ans = Pixels
        /\ \A p \in Pixels :
              IF d >= n * depth_map[p]
              THEN ret.ans[p] = <<0, 1>>
              ELSE ret.ans[p] = <<1, depth_map[p]>>
        /\ ret.n = Cardinality({p \in Pixels : ret.ans[p] # <<0, 1>>})

\* an all-positive map cropped by a number: one entry zeroed because its
\* inverse depth equals the cutoff, another entry kept
C8_Witness ==
    /\ pc = "crop_done" /\ ~threshold.callable
    /\ \A p \in Pixels : depth_map[p] > 0
    /\ \E p, q \in Pixels :
          /\ threshold.val[2] = threshold.val[1] * depth_map[p]
          /\ ret.ans[p] = <<0, 1>>
          /\ ret.ans[q] # <<0, 1>>

\* ------------------------------------------------ get_connected_components
\* 8-connectivity, the default of cv2.connectedComponents
Adjacent(p, q) ==
    /\ p # q
    /\ p[1] - q[1] \in {-1, 0, 1}
    /\ p[2] - q[2] \in {-1, 0, 1}

\* the foreground pixels reachable from S
RECURSIVE Grow(_, _)
Grow(S, fg) ==
    LET N == S \cup {q \in fg : \E p \in S : Adjacent(p, q)}
    IN  IF N = S THEN S ELSE Grow(N, fg)

\* cv2.connectedComponents(arr): label 0 is the background, the components
\* are numbered 1 .. num - 1 in the raster order of their first pixel
connectedComponents(arr) ==
    LET fg == NonZero(arr)
        root(p) == CHOOSE r \in Grow({p}, fg) :
                       \A q \in Grow({p}, fg) : Idx(r) <= Idx(q)
        roots == {root(p) : p \in fg}
        label(p) == Cardinality({r \in roots : Idx(r) <= Idx(root(p))})
    IN  [num |-> Cardinality(roots) + 1,
         result |-> [p \in Pixels |-> IF p \in fg THEN label(p) ELSE 0]]

\* line 43: range(1, num)
LabelRangeFrom0(num) == [k \in 1 .. num |-> k - 1]
LabelRange(num) == [k \in 1 .. num - 1 |-> k]

RECURSIVE ArrSum(_, _)
ArrSum(a, S) ==
    IF S = {} THEN 0
    ELSE LET p == CHOOSE q \in S : TRUE IN a[p] + ArrSum(a, S \ {p})

\* lines 43-46: one (depth, mask) pair per label that is large enough
RECURSIVE Components(_, _, _, _, _)
Components(labels, dm, lab, th, count_pixels) ==
    IF labels = <<>> THEN <<>>
    ELSE LET i == Head(labels)
             map_arr == [p \in Pixels |-> IF lab[p] = i THEN 1 ELSE 0]
             rest == Components(Tail(labels), dm, lab, th, count_pixels)
         IN  IF ArrSum(map_arr, Pixels) * th[2] >= th[1] * count_pixels
             THEN <<[depth |-> [p \in Pixels |-> dm[p] * map_arr[p]],
                     mask |-> map_arr]>> \o rest
             ELSE rest

get_connected_components(dm, th) ==
    LET arr == [p \in Pixels |-> IF dm[p] > 0 THEN 1 ELSE 0]
        count_pixels == ArrSum(arr, Pixels)
        cc == connectedComponents(arr)
    IN  [tag |-> "ok",
         ans |-> Components(LabelRange(cc.num), dm, cc.result, th, count_pixels)]

CCDepthVals == {-1, 0, 2}
\* 3/10 is the default; with fewer than 10 foreground pixels 0.3 * count_pixels
\* is never an integer, so float rounding cannot change the comparison
CCThresholds == {<<0, 1>>, <<3, 10>>, <<1, 2>>, <<1, 1>>}

InitCC ==
    /\ pc = "cc"
    /\ depth_map \in [Pixels -> CCDepthVals]
    /\ threshold \in [callable : {FALSE}, val : CCThresholds]
    /\ ret = [tag |-> "none"]
    /\ Idle

CallCC ==
    /\ pc = "cc"
    /\ ret' = get_connected_components(depth_map, threshold.val)
    /\ pc' = "cc_done"
    /\ UNCHANGED <<depth_map, threshold, true_arr, approx_arr, func, mem,
                   curr_map_arr, start_size, t, count, result, hist>>

NextCC == CallCC
SpecCC == InitCC /\ [][NextCC]_vars

\* C4: the masks get_connected_components returns are pairwise disjoint and
\* every pixel set in a returned mask is a pixel where depth_map > 0.
C4_ComponentsDisjoint ==
    pc = "cc_done" =>
    /\ \A i, j \in 1 .. Len(ret.ans) :
          i # j => \A p \in Pixels :
                     ~(ret.ans[i].mask[p] = 1 /\ ret.ans[j].mask[p] = 1)
    /\ \A i \in 1 .. Len(ret.ans) :
          \A p \in Pixels : ret.ans[i].mask[p] = 1 => depth_map[p] > 0

\* two components are returned from a map that also has a negative entry
C4_Witness ==
    /\ pc = "cc_done"
    /\ Len(ret.ans) >= 2
    /\ \E p \in Pixels : depth_map[p] < 0

\* ------------------------------------------------------------ loss_metric
\* A point is modelled by its last coordinate x[-1], the only one read.
\* lines 127-131: the names the dictionary funcs holds
FuncNames == {"rmse", "mae", "mse"}

Raised(exc) == [tag |-> exc, sqrt |-> FALSE, val |-> Zero]

\* funcs[func]: a missing key raises KeyError
LookupOrDefault(f) ==
    IF f \in FuncNames THEN [found |-> TRUE, name |-> f]
    ELSE [found |-> TRUE, name |-> "rmse"]
Lookup(f) ==
    IF f \in FuncNames THEN [found |-> TRUE, name |-> f]
    ELSE [found |-> FALSE, name |-> f]

Abs(x) == IF x < 0 THEN -x ELSE x

\* funcs[func][0](x, y)
PerPointSum(name, x, y) ==
    IF name = "mae" THEN Abs((x + y) * 1000)
    ELSE ((x + y) * 1000) * ((x + y) * 1000)
PerPoint(name, x, y) ==
    IF name = "mae" THEN Abs((x - y) * 1000)
    ELSE ((x - y) * 1000) * ((x - y) * 1000)

\* funcs[func][1](x, n): 0 / 0 on Python ints raises ZeroDivisionError; the
\* loss is the int 0 exactly when the loop never ran
Aggregate(name, loss, n) ==
    IF n = 0 THEN Raised("ZeroDivisionError")
    ELSE [tag |-> "ok", sqrt |-> (name = "rmse"), val |-> Norm(<<loss, n>>)]

Min(a, b) == IF a < b THEN a ELSE b

\* lines 134-136: for x, y in zip(true_arr, approx_arr): loss += ...
RECURSIVE ZipLoss(_, _, _, _)
ZipLoss(name, ta, aa, k) ==
    IF k > Min(Len(ta), Len(aa)) THEN 0
    ELSE PerPoint(name, ta[k], aa[k]) + ZipLoss(name, ta, aa, k + 1)

loss_metric(ta, aa, f) ==
    IF Min(Len(ta), Len(aa)) > 0 /\ ~Lookup(f).found
    THEN Raised("KeyError")                       \* line 136, first pair
    ELSE IF ~Lookup(f).found
    THEN Raised("KeyError")                       \* line 137
    ELSE Aggregate(Lookup(f).name, ZipLoss(Lookup(f).name, ta, aa, 1), Len(ta))

Zs == {0, 1, 2}
Clouds == UNION {[1 .. n -> Zs] : n \in 0 .. MaxLen}

InitLoss ==
    /\ pc = "loss"
    /\ true_arr \in Clouds
    /\ approx_arr \in Clouds
    /\ func \in FuncNames \cup {"huber"}
    /\ ret = [tag |-> "none"]
    /\ depth_map = <<>> /\ threshold = <<>>
    /\ mem = <<>> /\ curr_map_arr = "none" /\ start_size = 0 /\ t = Zero
    /\ count = 0 /\ result = <<>> /\ hist = <<>>

CallLoss ==
    /\ pc = "loss"
    /\ ret' = loss_metric(true_arr, approx_arr, func)
    /\ pc' = "loss_done"
    /\ UNCHANGED <<depth_map, threshold, true_arr, approx_arr, func, mem,
                   curr_map_arr, start_size, t, count, result, hist>>

NextLoss == CallLoss
SpecLoss == InitLoss /\ [][NextLoss]_vars

\* C5: with a func name that is not a key of funcs the call always ends in
\* KeyError and returns no value, also for empty clouds.
C5_UnknownFuncRaises ==
    (pc = "loss_done" /\ func \notin {"rmse", "mae", "mse"}) =>
        ret.tag = "KeyError"

\* an unknown name with two empty clouds: the loop body never runs
C5_Witness ==
    /\ pc = "loss_done" /\ func = "huber"
    /\ true_arr = <<>> /\ approx_arr = <<>>
    /\ ret.tag = "KeyError"

\* C6 as stated: for every point cloud, loss_metric(pcd, pcd, "rmse")
\* returns exactly 0.
C6_SelfLossZero ==
    (pc = "loss_done" /\ func = "rmse" /\ approx_arr = true_arr) =>
        (ret.tag = "ok" /\ ret.val = <<0, 1>>)

\* C6 amended: for every non-empty point cloud loss_metric(pcd, pcd, "rmse")
\* returns exactly 0; for the empty cloud it raises ZeroDivisionError.
C6_SelfLossZeroNonEmpty ==
    (pc = "loss_done" /\ func = "rmse" /\ approx_arr = true_arr) =>
        IF true_arr = <<>> THEN ret.tag = "ZeroDivisionError"
        ELSE ret.tag = "ok" /\ ret.val = <<0, 1>>

\* a cloud of two different non-zero points compared to itself gives 0
C6_Witness ==
    /\ pc = "loss_done" /\ func = "rmse" /\ approx_arr = true_arr
    /\ Len(true_arr) = 2 /\ true_arr[1] # true_arr[2] /\ true_arr[1] # 0
    /\ ret.tag = "ok" /\ ret.val = <<0, 1>>

\* the first n points of a cloud
Truncated(s, n) == [k \in 1 .. n |-> s[k]]

\* C7: for clouds of different lengths and a known func, the result equals
\* the result on both clouds truncated to the shorter length.
C7_TruncatedLoss ==
    (pc = "loss_done" /\ func \in {"rmse", "mae", "mse"}
        /\ Len(true_arr) # Len(approx_arr)) =>
    LET n == IF Len(true_arr) < Len(approx_arr)
             THEN Len(true_arr) ELSE Len(approx_arr)
    IN  ret = loss_metric(Truncated(true_arr, n), Truncated(approx_arr, n), func)

\* ---------------------------------------------------- extract_planes_con
\* mem holds the mask arrays by reference: "arg" is the array the caller
\* passed as map_arr, "copy" the array copy.deepcopy allocates.
map_arr == "arg"

\* line 76: copy.deepcopy returns a reference to a new array
NoCopy(ref) == ref
deepcopy(ref) == "copy"

\* line 79: int(start_size * t), for start_size * t >= 0
StopCount(ss, tt) == (ss * tt[1]) \div tt[2]

\* lines 56-59: create_from_depth_image makes one point per pixel whose depth
\* is positive, in raster (row-major) order; the k-th entry is the pixel that
\* the k-th point was back-projected from
PointPixels(dm) == RowMajor({p \in Pixels : dm[p] > 0})

\* line 84: curr_map_arr[x, y] = 0
ZeroNothing(cur, xy) == cur
ZeroAt(cur, xy) == [p \in Pixels |-> IF p \in xy THEN 0 ELSE cur[p]]

\* line 82, 85: ans = np.zeros(shape); ans[x, y] = 1
OnesAt(xy) == [p \in Pixels |-> IF p \in xy THEN 1 ELSE 0]

\* the recorded masks of fits that reported no inlier
EmptyFits(res) == {i \in 1 .. Len(res) : NonZero(res[i]) = {}}

Masks == {m \in [Pixels -> {0, 1}] : Cardinality(NonZero(m)) <= MaxPts}
\* depth 2 everywhere, or with no measurement at the first pixel
ExtractDepths ==
    {[p \in Pixels |-> IF p = <<0, 0>> THEN d ELSE 2] : d \in {0, 2}}
\* dyadic fractions of (0, 1]: start_size * t is exact in floating point
Ts == {<<1, 2>>, <<1, 1>>}

Init ==
    /\ pc = "entry"
    /\ mem \in [arg : Masks, copy : {[p \in Pixels |-> 0]}]
    /\ depth_map \in ExtractDepths
    /\ start_size \in 0 .. MaxStart
    /\ t \in Ts
    /\ curr_map_arr = "none"
    /\ count = 0
    /\ result = <<>>
    /\ hist = [map_arr0 |-> mem.arg, fitted |-> FALSE, inliers |-> {}]
    /\ ret = [tag |-> "none"]
    /\ threshold = <<>> /\ true_arr = <<>> /\ approx_arr = <<>>
    /\ func = "none"

\* lines 76-78
Enter ==
    /\ pc = "entry"
    /\ mem' = [mem EXCEPT !.copy = mem[map_arr]]
    /\ curr_map_arr' = deepcopy(map_arr)
    /\ count' = start_size
    /\ result' = <<>>
    /\ pc' = "loop"
    /\ UNCHANGED <<depth_map, threshold, ret, true_arr, approx_arr, func,
                   start_size, t, hist>>

\* line 79 true, line 80: the cloud is empty and np.max(arr) at line 60
\* raises ValueError out of extract_planes_con
IterateEmptyCloud ==
    /\ pc = "loop"
    /\ count >= StopCount(start_size, t)
    /\ PointPixels([p \in Pixels |-> depth_map[p] * mem[curr_map_arr][p]]) = <<>>
    /\ pc' = "raised"
    /\ ret' = [tag |-> "ValueError"]
    /\ hist' = [hist EXCEPT !.fitted = TRUE]
    /\ UNCHANGED <<depth_map, threshold, true_arr, approx_arr, func, mem,
                   curr_map_arr, start_size, t, count, result>>

\* line 79 true, lines 80-87 with a fit that reports at least minInliers
\* distinct indices into the cloud (1-based here)
Iterate(minInliers) ==
    /\ pc = "loop"
    /\ count >= StopCount(start_size, t)
    /\ LET cur == mem[curr_map_arr]
           points == PointPixels([p \in Pixels |-> depth_map[p] * cur[p]])
           ls == RowMajor(NonZero(cur))
       IN  /\ points # <<>>
           /\ \E inliers \in SUBSET (1 .. Len(points)) :
                 /\ Cardinality(inliers) >= minInliers
                 /\ inliers = {} => Cardinality(EmptyFits(result)) < MaxEmptyFits
                 /\ LET xy == {ls[k] : k \in inliers}
                    IN  /\ mem' = [mem EXCEPT ![curr_map_arr] = ZeroAt(cur, xy)]
                        /\ result' = Append(result, OnesAt(xy))
                 /\ count' = count - Cardinality(inliers)
                 /\ hist' = [hist EXCEPT !.fitted = TRUE,
                                         !.inliers = {points[k] : k \in inliers}]
    /\ UNCHANGED <<pc, depth_map, threshold, ret, true_arr, approx_arr, func,
                   curr_map_arr, start_size, t>>

\* line 79 false, line 88
Return ==
    /\ pc = "loop"
    /\ count < StopCount(start_size, t)
    /\ pc' = "returned"
    /\ UNCHANGED <<depth_map, threshold, ret, true_arr, approx_arr, func, mem,
                   curr_map_arr, start_size, t, count, result, hist>>

IterateAny == Iterate(0)
Next == Enter \/ IterateEmptyCloud \/ IterateAny \/ Return
Spec == Init /\ [][Next]_vars

\* the fitter reports at least one inlier for every non-empty cloud; the
\* interpreter keeps running the call until it returns or raises
IterateSome == Iterate(1)
NextFit == Enter \/ IterateEmptyCloud \/ IterateSome \/ Return
SpecFit == Init /\ [][NextFit]_vars /\ WF_vars(NextFit)

\* C1: called with start_size = 0, extract_planes_con never calls the plane
\* fitter, appends no pair and returns the empty list.
C1_ZeroStartReturnsEmpty ==
    start_size = 0 =>
        /\ ~hist.fitted
        /\ result = <<>>
        /\ pc # "raised"

\* C2: the array the caller passed as map_arr holds, at every point of the
\* call and after it, the values it held at entry.
C2_InputMaskUnchanged == mem[map_arr] = hist.map_arr0

\* the call has returned after two fits that each zeroed pixels of the copy
C2_Witness ==
    /\ pc = "returned"
    /\ Len(result) >= 2
    /\ \A i \in 1 .. Len(result) : NonZero(result[i]) # {}
    /\ mem[curr_map_arr] # hist.map_arr0

\* C3: when the fitter reports at least one inlier for every non-empty
\* cloud, extract_planes_con eventually returns its list.
C3_EventuallyReturns == <>(pc = "returned")

\* C9: the pixels set in the mask an iteration records are exactly the
\* pixels whose back-projected points the fitter reported as inliers.
C9_MaskIsInlierPixels ==
    (pc \in {"loop", "returned"} /\ result # <<>>) =>
        NonZero(result[Len(result)]) = hist.inliers

RECURSIVE SumCard(_, _)
SumCard(res, k) ==
    IF k = 0 THEN 0 ELSE Cardinality(NonZero(res[k])) + SumCard(res, k - 1)

\* C10: after any number of iterations the recorded masks are pairwise
\* disjoint, they and the non-zero pixels of curr_map_arr partition the
\* non-zero pixels of the input mask, and count is start_size minus the
\* number of pixels set in the recorded masks.
C10_MasksPartitionInput ==
    pc \in {"loop", "returned", "raised"} =>
    LET cur == NonZero(mem[curr_map_arr])
        taken == UNION {NonZero(result[i]) : i \in 1 .. Len(result)}
    IN  /\ \A i, j \in 1 .. Len(result) :
              i # j => NonZero(result[i]) \cap NonZero(result[j]) = {}
        /\ taken \cap cur = {}
        /\ taken \cup cur = NonZero(hist.map_arr0)
        /\ count = start_size - SumCard(result, Len(result))

\* two fits have each taken pixels and a pixel of the mask is still left
C10_Witness ==
    /\ pc = "loop"
    /\ Len(result) = 2
    /\ NonZero(result[1]) # {} /\ NonZero(result[2]) # {}
    /\ NonZero(mem[curr_map_arr]) # {}

====
